---- MODULE Spec2Model ----
(***************************************************************************)
(* AutoGitLLM: the change collector of src/src/git.ts                      *)
(* (collectRepositoryChanges, runGit, parseLines, uniqueLines,             *)
(* readUntrackedFileContent, looksBinary, trimUtf8).                       *)
(*                                                                         *)
(* A text is a sequence of Unicode code points (natural numbers); a buffer *)
(* is a sequence of bytes (0..255).  Buffer.from(text, "utf8") and         *)
(* buffer.toString("utf8") are modelled by the UTF-8 encoder and the       *)
(* replacing UTF-8 decoder below.                                          *)
(***************************************************************************)
EXTENDS Integers, Sequences, FiniteSets, TLC

(***************************************************************************)
(* Bounds of the model.                                                    *)
(***************************************************************************)
MaxTextLen == 3          \* code points in a text handed to trimUtf8 alone
MaxBudget == 8           \* largest byte budget handed to trimUtf8 alone
MaxPaths == 2            \* distinct paths git may report
MaxListLen == 2          \* entries of one name list (repeats allowed)
MaxChangedFiles == 2     \* largest config.maxChangedFiles
MaxRepositories == 2     \* repositories the Git API may hold
MaxEmptyAccepts == 2     \* times the user accepts an empty quick pick

\* code points of the texts handed to trimUtf8 alone: a, e-acute, euro sign,
\* grinning face (1, 2, 3 and 4 bytes of UTF-8)
TextAlphabet == {97, 233, 8364, 128512}

\* config.maxDiffBytes values of the collection runs: 10 cuts inside the
\* first block header; 42 holds one block with a "Staged diff" section and
\* cuts a block with a staged and an unstaged section inside the second
\* section's e-acute
DiffByteBudgets == {10, 42}

(***************************************************************************)
(* Text primitives                                                         *)
(***************************************************************************)
\* U+FFFD, what Buffer.toString("utf8") puts in place of an ill-formed
\* or incomplete byte sequence
ReplacementChar == 65533

\* one code point -> its UTF-8 bytes (Buffer.from(text, "utf8"))
Utf8Bytes(cp) ==
  IF cp < 128 THEN <<cp>>
  ELSE IF cp < 2048 THEN <<192 + (cp \div 64), 128 + (cp % 64)>>
  ELSE IF cp < 65536 THEN
    <<224 + (cp \div 4096), 128 + ((cp \div 64) % 64), 128 + (cp % 64)>>
  ELSE <<240 + (cp \div 262144), 128 + ((cp \div 4096) % 64),
         128 + ((cp \div 64) % 64), 128 + (cp % 64)>>

\* Buffer.from(text, "utf8"): the bytes of text[lo..hi], in order
RECURSIVE Utf8EncodeRange(_, _, _)
Utf8EncodeRange(text, lo, hi) ==
  IF lo > hi THEN <<>>
  ELSE IF lo = hi THEN Utf8Bytes(text[lo])
  ELSE Utf8EncodeRange(text, lo, (lo + hi) \div 2)
       \o Utf8EncodeRange(text, ((lo + hi) \div 2) + 1, hi)

Utf8Encode(text) == Utf8EncodeRange(text, 1, Len(text))

\* number of continuation bytes a lead byte announces; -1: not a lead byte
Utf8Need(b) ==
  IF b < 128 THEN 0
  ELSE IF b >= 194 /\ b <= 223 THEN 1
  ELSE IF b >= 224 /\ b <= 239 THEN 2
  ELSE IF b >= 240 /\ b <= 244 THEN 3
  ELSE -1

IsContinuation(b) == b >= 128 /\ b <= 191

\* how many of the bytes after position i, at most n, are continuation bytes
RECURSIVE ContinuationRun(_, _, _)
ContinuationRun(bytes, i, n) ==
  IF n = 0 \/ i + 1 > Len(bytes) \/ ~IsContinuation(bytes[i + 1]) THEN 0
  ELSE 1 + ContinuationRun(bytes, i + 1, n - 1)

\* the code point of a complete sequence of 1 + need bytes starting at i
Utf8CodePoint(bytes, i, need) ==
  IF need = 0 THEN bytes[i]
  ELSE IF need = 1 THEN (bytes[i] - 192) * 64 + (bytes[i + 1] - 128)
  ELSE IF need = 2 THEN
    (bytes[i] - 224) * 4096 + (bytes[i + 1] - 128) * 64 + (bytes[i + 2] - 128)
  ELSE (bytes[i] - 240) * 262144 + (bytes[i + 1] - 128) * 4096
       + (bytes[i + 2] - 128) * 64 + (bytes[i + 3] - 128)

\* buffer.toString("utf8") from byte i on, appended to out: a complete
\* sequence gives its code point; an incomplete one (a lead byte and the
\* continuation bytes that follow it) and a stray byte give one U+FFFD each
RECURSIVE Utf8DecodeFrom(_, _, _)
Utf8DecodeFrom(bytes, i, out) ==
  IF i > Len(bytes) THEN out
  ELSE IF bytes[i] < 128 THEN Utf8DecodeFrom(bytes, i + 1, Append(out, bytes[i]))
  ELSE LET need == Utf8Need(bytes[i])
           have == IF need < 0 THEN 0 ELSE ContinuationRun(bytes, i, need)
       IN IF need >= 0 /\ have = need
          THEN Utf8DecodeFrom(bytes, i + 1 + need, Append(out, Utf8CodePoint(bytes, i, need)))
          ELSE Utf8DecodeFrom(bytes, i + 1 + have, Append(out, ReplacementChar))

Utf8Decode(bytes) == Utf8DecodeFrom(bytes, 1, <<>>)

\* Buffer.byteLength(text, "utf8")
byteLength(text) == Len(Utf8Encode(text))

\* buffer.subarray(0, end) for end >= 0
subarray(bytes, end) ==
  SubSeq(bytes, 1, IF end < Len(bytes) THEN end ELSE Len(bytes))

\* the white space and line terminators String.prototype.trim removes
WhiteSpace ==
  {9, 10, 11, 12, 13, 32, 160, 5760, 8232, 8233, 8239, 8287, 12288, 65279}
  \cup (8192..8202)

RECURSIVE TrimStart(_)
TrimStart(text) ==
  IF text # <<>> /\ Head(text) \in WhiteSpace THEN TrimStart(Tail(text)) ELSE text

RECURSIVE TrimEnd(_)
TrimEnd(text) ==
  IF text # <<>> /\ text[Len(text)] \in WhiteSpace
  THEN TrimEnd(SubSeq(text, 1, Len(text) - 1)) ELSE text

\* String.prototype.trim
Trim(text) == TrimEnd(TrimStart(text))

\* parts.join(sep)
RECURSIVE Join(_, _)
Join(parts, sep) ==
  IF parts = <<>> THEN <<>>
  ELSE IF Len(parts) = 1 THEN parts[1]
  ELSE parts[1] \o sep \o Join(Tail(parts), sep)

IsPrefix(s, t) == Len(s) <= Len(t) /\ SubSeq(t, 1, Len(s)) = s

IsSuffix(s, t) == Len(s) <= Len(t) /\ SubSeq(t, Len(t) - Len(s) + 1, Len(t)) = s

(***************************************************************************)
(* Literals of git.ts, as code points                                      *)
(***************************************************************************)
NL == <<10>>

\* "\n\n"
BlankLine == <<10, 10>>

\* "\n\n[Diff truncated due to maxDiffBytes limit]"
TruncationMarker ==
  <<10, 10, 91, 68, 105, 102, 102, 32, 116, 114, 117, 110, 99, 97, 116, 101,
    100, 32, 100, 117, 101, 32, 116, 111, 32, 109, 97, 120, 68, 105, 102, 102,
    66, 121, 116, 101, 115, 32, 108, 105, 109, 105, 116, 93>>

(***************************************************************************)
(* trimUtf8                                                                *)
(***************************************************************************)
\* mutant of trimUtf8: the marker is appended but the text is not cut
trimUtf8_NoCut(text, maxBytes) ==
  IF byteLength(text) <= maxBytes
  THEN [text |-> text, truncated |-> FALSE]
  ELSE [text |-> text \o TruncationMarker, truncated |-> TRUE]

trimUtf8(text, maxBytes) ==
  LET buffer == Utf8Encode(text)
      bytes == Len(buffer)
  IN IF bytes <= maxBytes
     THEN [text |-> text, truncated |-> FALSE]
     ELSE [text |-> Utf8Decode(subarray(buffer, maxBytes)) \o TruncationMarker,
           truncated |-> TRUE]

(***************************************************************************)
(* Pure helpers of the collector                                           *)
(***************************************************************************)
Range(seq) == {seq[k] : k \in 1..Len(seq)}

\* "# Staged diff\n", "# Unstaged diff\n", "# Untracked file content\n"
StagedHeader ==
  <<35, 32, 83, 116, 97, 103, 101, 100, 32, 100, 105, 102, 102, 10>>

UnstagedHeader ==
  <<35, 32, 85, 110, 115, 116, 97, 103, 101, 100, 32, 100, 105, 102, 102, 10>>

UntrackedHeader ==
  <<35, 32, 85, 110, 116, 114, 97, 99, 107, 101, 100, 32, 102, 105, 108, 101,
    32, 99, 111, 110, 116, 101, 110, 116, 10>>

\* "## "
BlockPrefix == <<35, 35, 32>>

\* "[Skipped non-regular file]"
SkippedNonRegular ==
  <<91, 83, 107, 105, 112, 112, 101, 100, 32, 110, 111, 110, 45, 114, 101,
    103, 117, 108, 97, 114, 32, 102, 105, 108, 101, 93>>

\* "[Skipped binary file]"
SkippedBinary ==
  <<91, 83, 107, 105, 112, 112, 101, 100, 32, 98, 105, 110, 97, 114, 121, 32,
    102, 105, 108, 101, 93>>

\* "[Empty text file]"
EmptyTextFile ==
  <<91, 69, 109, 112, 116, 121, 32, 116, 101, 120, 116, 32, 102, 105, 108,
    101, 93>>

\* "[Untracked file unavailable: "
UnavailablePrefix ==
  <<91, 85, 110, 116, 114, 97, 99, 107, 101, 100, 32, 102, 105, 108, 101, 32,
    117, 110, 97, 118, 97, 105, 108, 97, 98, 108, 101, 58, 32>>

\* `[Untracked file unavailable: ${reason}]`
UnavailableText(reason) == UnavailablePrefix \o reason \o <<93>>

\* value.split(/\r?\n/): a line ends at LF, and a CR right before that LF
\* belongs to the separator
StripCR(line) ==
  IF line # <<>> /\ line[Len(line)] = 13 THEN SubSeq(line, 1, Len(line) - 1) ELSE line

RECURSIVE SplitFrom(_, _, _)
SplitFrom(text, i, cur) ==
  IF i > Len(text) THEN <<cur>>
  ELSE IF text[i] = 10 THEN <<StripCR(cur)>> \o SplitFrom(text, i + 1, <<>>)
  ELSE SplitFrom(text, i + 1, Append(cur, text[i]))

SplitLines(text) == SplitFrom(text, 1, <<>>)

RECURSIVE TrimmedNonEmpty(_)
TrimmedNonEmpty(lines) ==
  IF lines = <<>> THEN <<>>
  ELSE LET line == Trim(Head(lines))
       IN (IF Len(line) > 0 THEN <<line>> ELSE <<>>) \o TrimmedNonEmpty(Tail(lines))

parseLines(value) == TrimmedNonEmpty(SplitLines(value))

RECURSIVE uniqueFrom(_, _)
uniqueFrom(lines, seen) ==
  IF lines = <<>> THEN <<>>
  ELSE IF Head(lines) \in seen THEN uniqueFrom(Tail(lines), seen)
  ELSE <<Head(lines)>> \o uniqueFrom(Tail(lines), seen \cup {Head(lines)})

\* mutant of uniqueLines: a line already seen is pushed again
uniqueLines_NoDedup(lines) == lines

uniqueLines(lines) == uniqueFrom(lines, {})

\* Array.prototype.slice(0, end)
slice(seq, end) ==
  LET stop == IF end < 0 THEN (IF Len(seq) + end < 0 THEN 0 ELSE Len(seq) + end)
              ELSE (IF end > Len(seq) THEN Len(seq) ELSE end)
  IN SubSeq(seq, 1, stop)

\* the sample looksBinary inspects
SampleLimit == 1024

IsControl(byte) == byte < 32 /\ byte # 9 /\ byte # 10 /\ byte # 13

\* the loop of lines 216-224 over buffer[lo..hi], split in halves so that
\* a sample of 1024 bytes is counted at a recursion depth of 10
RECURSIVE CountControlRange(_, _, _)
CountControlRange(buffer, lo, hi) ==
  IF lo > hi THEN 0
  ELSE IF lo = hi THEN (IF IsControl(buffer[lo]) THEN 1 ELSE 0)
  ELSE LET mid == (lo + hi) \div 2
       IN CountControlRange(buffer, lo, mid) + CountControlRange(buffer, mid + 1, hi)

CountControl(buffer, n) == CountControlRange(buffer, 1, n)

\* mutant of looksBinary: a sample of exactly 10% control bytes is binary
looksBinary_AtLeastTenPercent(buffer) ==
  IF Len(buffer) = 0 THEN FALSE
  ELSE IF 0 \in Range(buffer) THEN TRUE
  ELSE LET sampleSize == IF Len(buffer) < SampleLimit THEN Len(buffer) ELSE SampleLimit
           nonTextCount == CountControl(buffer, sampleSize)
       IN 10 * nonTextCount >= sampleSize

\* nonTextCount / sampleSize > 0.1 is decided exactly by 10 * count > size
looksBinary(buffer) ==
  IF Len(buffer) = 0 THEN FALSE
  ELSE IF 0 \in Range(buffer) THEN TRUE
  ELSE LET sampleSize == IF Len(buffer) < SampleLimit THEN Len(buffer) ELSE SampleLimit
           nonTextCount == CountControl(buffer, sampleSize)
       IN 10 * nonTextCount > sampleSize

\* mutant of contentOfBuffer: `text.trim()` without `|| "[Empty text file]"`
contentOfBuffer_NoEmptyPlaceholder(buffer) ==
  IF looksBinary(buffer) THEN SkippedBinary ELSE Trim(Utf8Decode(buffer))

\* readUntrackedFileContent once fs.readFile has returned the buffer
contentOfBuffer(buffer) ==
  IF looksBinary(buffer) THEN SkippedBinary
  ELSE LET text == Trim(Utf8Decode(buffer))
       IN IF text # <<>> THEN text ELSE EmptyTextFile

SectionHeader(kind) ==
  IF kind = "staged" THEN StagedHeader
  ELSE IF kind = "unstaged" THEN UnstagedHeader
  ELSE UntrackedHeader

\* `# Staged diff\n${stagedDiff}` and its two siblings
SectionText(section) == SectionHeader(section.kind) \o section.body

RECURSIVE SectionTexts(_)
SectionTexts(sections) ==
  IF sections = <<>> THEN <<>>
  ELSE <<SectionText(Head(sections))>> \o SectionTexts(Tail(sections))

\* `## ${filePath}\n${sections.join("\n\n")}`
BlockText(block) ==
  BlockPrefix \o block.path \o NL \o Join(SectionTexts(block.sections), BlankLine)

RECURSIVE BlockTexts(_)
BlockTexts(parts) ==
  IF parts = <<>> THEN <<>>
  ELSE <<BlockText(Head(parts))>> \o BlockTexts(Tail(parts))

\* diffParts.join("\n\n")
MergedText(parts) == Join(BlockTexts(parts), BlankLine)

\* sections.push(...) guarded by `if (text.trim())`
PushSection(sections, kind, text) ==
  IF Trim(text) # <<>> THEN Append(sections, [kind |-> kind, body |-> text])
  ELSE sections

\* mutant of PushBlock: the block is pushed whatever sections holds
PushBlock_Always(parts, path, sections) ==
  Append(parts, [path |-> path, sections |-> sections])

\* diffParts.push(...) guarded by `if (sections.length > 0)`
PushBlock(parts, path, sections) ==
  IF Len(sections) > 0 THEN Append(parts, [path |-> path, sections |-> sections])
  ELSE parts

allChangedFilesOf(staged, unstaged, untracked) ==
  uniqueLines(staged \o unstaged \o untracked)

\* mutant of limitedFilesOf: the last maxChangedFiles entries are kept
limitedFilesOf_Tail(all, maxChangedFiles) ==
  SubSeq(all, Len(all) - Len(slice(all, maxChangedFiles)) + 1, Len(all))

limitedFilesOf(all, maxChangedFiles) == slice(all, maxChangedFiles)

\* mutant of wasFileLimitedOf: >= for >
wasFileLimitedOf_AtLimit(all, limited) == Len(all) >= Len(limited)

wasFileLimitedOf(all, limited) == Len(all) > Len(limited)

(***************************************************************************)
(* State                                                                   *)
(***************************************************************************)
VARIABLES
  config,          \* the ExtensionConfig of the invocation (never mutated)
  phase,           \* "idle" | "running" | "resolved" | "rejected"
  awaiting,        \* the one command or file operation in flight, or NoCommand
  issued,          \* every command and file operation issued so far, in order
  outcomes,        \* how each completed one of them ended, in the same order
  status,          \* const status
  stagedFiles,     \* const stagedFiles
  unstagedFiles,   \* const unstagedFiles
  untrackedFiles,  \* const untrackedFiles
  fileIdx,         \* position of the for loop in limitedFiles (1-based)
  sections,        \* sections of the file at fileIdx
  diffParts,       \* diffParts
  snapshot,        \* the ChangeSnapshot the promise resolved with
  error,           \* the Error the promise rejected with
  trimText,        \* trimUtf8 called alone: its text,
  trimBudget,      \*   its maxBytes,
  trimOut,         \*   and what it returned
  mergeOut,        \* lines 82-84 run alone on three lists: what they built
  binaryCall,      \* looksBinary called alone: its buffer and what it returned
  promptCall,      \* buildPrompt called alone: snapshot, config and result
  configCall,      \* getConfigValue called alone: what inspect gave, result
  wizard,          \* one run of openSetupWizard
  command,         \* one run of runGenerateCommitMessage
  picker           \* one run of pickModel

vars ==
  <<config, phase, awaiting, issued, outcomes, status, stagedFiles,
    unstagedFiles, untrackedFiles, fileIdx, sections, diffParts, snapshot,
    error, trimText, trimBudget, trimOut, mergeOut, binaryCall, promptCall,
    configCall, wizard, command, picker>>

collectVars ==
  <<config, phase, awaiting, issued, outcomes, status, stagedFiles,
    unstagedFiles, untrackedFiles, fileIdx, sections, diffParts, snapshot,
    error>>

laterVars == <<binaryCall, promptCall, configCall, wizard, command, picker>>

aloneVars == <<trimText, trimBudget, trimOut, mergeOut, laterVars>>

NoCommand == [op |-> "none", path |-> <<>>]
NoSnapshot == [none |-> TRUE]
NoError == [none |-> TRUE]
NoTrim == [none |-> TRUE]
NoMerge == [none |-> TRUE]

\* the value of a variable whose operation is not part of the run
Off == [off |-> TRUE]

LaterOff ==
  /\ binaryCall = Off
  /\ promptCall = Off
  /\ configCall = Off
  /\ wizard = Off
  /\ command = Off
  /\ picker = Off

\* an entry of outcomes: kind is "ok", "error", and for fs.stat "isFile" or
\* "notFile"; data is the buffer fs.readFile returned or the message of the
\* error an fs call threw
Outcome(kind, data) == [kind |-> kind, data |-> data]

(***************************************************************************)
(* The commands runGit is called with, and the two fs calls.  `op` stands  *)
(* for the argument list:                                                  *)
(*   status         status --short                                         *)
(*   stagedNames    diff --name-only --staged                              *)
(*   unstagedNames  diff --name-only                                       *)
(*   untrackedNames ls-files --others --exclude-standard                   *)
(*   stagedDiff     diff --staged --no-color --no-ext-diff -- <path>       *)
(*   unstagedDiff   diff --no-color --no-ext-diff -- <path>                *)
(*   stat, readFile fs.stat / fs.readFile of join(repositoryPath, <path>)  *)
(***************************************************************************)
Command(op, path) == [op |-> op, path |-> path]

GitOps ==
  {"status", "stagedNames", "unstagedNames", "untrackedNames", "stagedDiff",
   "unstagedDiff"}

FsOps == {"stat", "readFile"}

(***************************************************************************)
(* Inputs: what git and the file system may answer                         *)
(***************************************************************************)
\* the paths "a", "b", ...
PathOf(k) == <<96 + k>>

Paths == {PathOf(k) : k \in 1..MaxPaths}

\* any list of paths, repeats allowed
PathLists == UNION {[1..n -> Paths] : n \in 0..MaxListLen}

\* a name list as git prints it: no path twice
NameLists == {names \in PathLists : Cardinality(Range(names)) = Len(names)}

\* git prints one name per line
RECURSIVE NameStdout(_)
NameStdout(names) ==
  IF names = <<>> THEN <<>> ELSE Head(names) \o NL \o NameStdout(Tail(names))

NameStdouts == {NameStdout(names) : names \in NameLists}

\* stdout of `git status --short`: nothing, or " M a\n"
StatusStdouts == {<<>>, <<32, 77, 32, 97, 10>>}

\* stdout of a per-file diff: nothing, or "+<e-acute>\n"
DiffStdouts == {<<>>, <<43, 233, 10>>}

\* what fs.readFile may return: NUL bytes, white space only, and the
\* text "<e-acute>\n"
FileBuffers == {<<0, 0>>, <<32, 10>>, <<195, 169, 10>>}

\* error.message of a failed fs.stat or fs.readFile: ""
FsReasons == {<<>>}

Configs ==
  [includeOnlyStaged : BOOLEAN,
   maxChangedFiles : 1..MaxChangedFiles,
   maxDiffBytes : DiffByteBudgets,
   truncateDiff : BOOLEAN]

IdleConfig ==
  [includeOnlyStaged |-> FALSE, maxChangedFiles |-> 1,
   maxDiffBytes |-> 0, truncateDiff |-> FALSE]

(***************************************************************************)
(* collectRepositoryChanges                                                *)
(***************************************************************************)
allChangedFiles == allChangedFilesOf(stagedFiles, unstagedFiles, untrackedFiles)

limitedFiles == limitedFilesOf(allChangedFiles, config.maxChangedFiles)

wasFileLimited == wasFileLimitedOf(allChangedFiles, limitedFiles)

\* mutant of BuildSnapshot: config.truncateDiff is not consulted
BuildSnapshot_AlwaysTruncates(cfg, st, all, limited, parts) ==
  LET trimmed == trimUtf8(MergedText(parts), cfg.maxDiffBytes)
  IN [status |-> st,
      diff |-> trimmed.text,
      wasTruncated |-> trimmed.truncated,
      wasFileLimited |-> wasFileLimitedOf(all, limited),
      totalChangedFiles |-> Len(all),
      includedChangedFiles |-> Len(limited)]

\* lines 128-138: join, truncate when configured, build the snapshot
BuildSnapshot(cfg, st, all, limited, parts) ==
  LET merged == MergedText(parts)
      trimmed == IF cfg.truncateDiff THEN trimUtf8(merged, cfg.maxDiffBytes)
                 ELSE [text |-> merged, truncated |-> FALSE]
  IN [status |-> st,
      diff |-> trimmed.text,
      wasTruncated |-> trimmed.truncated,
      wasFileLimited |-> wasFileLimitedOf(all, limited),
      totalChangedFiles |-> Len(all),
      includedChangedFiles |-> Len(limited)]

\* The synchronous code of the for loop from (file i, step) on, up to the
\* next await or the end of the loop.  step 1: the staged test is next,
\* 2: the unstaged test, 3: the untracked test, 4: the end of the body.
RECURSIVE NextAwait(_, _, _, _, _)
NextAwait(ctx, i, step, secs, parts) ==
  IF i > Len(ctx.limited)
  THEN [op |-> "return", i |-> i, secs |-> secs, parts |-> parts]
  ELSE LET filePath == ctx.limited[i]
       IN IF step <= 1 /\ filePath \in Range(ctx.staged)
          THEN [op |-> "stagedDiff", i |-> i, secs |-> secs, parts |-> parts]
          ELSE IF step <= 2 /\ filePath \in Range(ctx.unstaged)
          THEN [op |-> "unstagedDiff", i |-> i, secs |-> secs, parts |-> parts]
          ELSE IF step <= 3 /\ filePath \in Range(ctx.untracked)
          THEN [op |-> "stat", i |-> i, secs |-> secs, parts |-> parts]
          ELSE NextAwait(ctx, i + 1, 1, <<>>, PushBlock(parts, filePath, secs))

\* run the loop on from (i, step): either issue the next command or file
\* operation, or leave the loop and resolve with the snapshot
Continue(staged, unstaged, untracked, i, step, secs, parts) ==
  LET all == allChangedFilesOf(staged, unstaged, untracked)
      limited == limitedFilesOf(all, config.maxChangedFiles)
      ctx == [staged |-> staged, unstaged |-> unstaged, untracked |-> untracked,
              limited |-> limited]
      next == NextAwait(ctx, i, step, secs, parts)
  IN /\ fileIdx' = next.i
     /\ sections' = next.secs
     /\ diffParts' = next.parts
     /\ IF next.op = "return"
        THEN /\ phase' = "resolved"
             /\ awaiting' = NoCommand
             /\ issued' = issued
             /\ snapshot' = BuildSnapshot(config, status, all, limited, next.parts)
        ELSE /\ phase' = phase
             /\ awaiting' = Command(next.op, limited[next.i])
             /\ issued' = Append(issued, Command(next.op, limited[next.i]))
             /\ snapshot' = snapshot

\* the call: everything up to the first await
Collect ==
  /\ phase = "idle"
  /\ config \in Configs
  /\ phase' = "running"
  /\ awaiting' = Command("status", <<>>)
  /\ issued' = <<Command("status", <<>>)>>
  /\ UNCHANGED <<config, outcomes, status, stagedFiles, unstagedFiles, untrackedFiles,
                 fileIdx, sections, diffParts, snapshot, error, aloneVars>>

\* mutant of GitFails: a failed per-file diff is caught and taken as no diff
GitFails_PerFileCaught ==
  /\ phase = "running"
  /\ awaiting.op \in GitOps
  /\ outcomes' = Append(outcomes, Outcome("error", <<>>))
  /\ IF awaiting.op \in {"stagedDiff", "unstagedDiff"}
     THEN /\ Continue(stagedFiles, unstagedFiles, untrackedFiles, fileIdx,
                      IF awaiting.op = "stagedDiff" THEN 2 ELSE 3,
                      sections, diffParts)
          /\ error' = error
     ELSE /\ phase' = "rejected"
          /\ error' = [args |-> awaiting]
          /\ awaiting' = NoCommand
          /\ UNCHANGED <<issued, fileIdx, sections, diffParts, snapshot>>
  /\ UNCHANGED <<config, status, stagedFiles, unstagedFiles, untrackedFiles,
                 aloneVars>>

\* runGit's callback with an error: the awaiting runGit rejects, nothing in
\* collectRepositoryChanges catches it
GitFails ==
  /\ phase = "running"
  /\ awaiting.op \in GitOps
  /\ phase' = "rejected"
  /\ error' = [args |-> awaiting]
  /\ awaiting' = NoCommand
  /\ outcomes' = Append(outcomes, Outcome("error", <<>>))
  /\ UNCHANGED <<config, issued, status, stagedFiles, unstagedFiles,
                 untrackedFiles, fileIdx, sections, diffParts, snapshot, aloneVars>>

\* line 68 resolved, line 71 issued
StatusDone(stdout) ==
  /\ phase = "running"
  /\ awaiting.op = "status"
  /\ status' = Trim(stdout)
  /\ outcomes' = Append(outcomes, Outcome("ok", <<>>))
  /\ awaiting' = Command("stagedNames", <<>>)
  /\ issued' = Append(issued, Command("stagedNames", <<>>))
  /\ UNCHANGED <<config, phase, stagedFiles, unstagedFiles, untrackedFiles,
                 fileIdx, sections, diffParts, snapshot, error, aloneVars>>

\* mutant of StagedNamesDone: config.includeOnlyStaged is not consulted
StagedNamesDone_IgnoresFlag(stdout) ==
  /\ phase = "running"
  /\ awaiting.op = "stagedNames"
  /\ stagedFiles' = parseLines(Trim(stdout))
  /\ outcomes' = Append(outcomes, Outcome("ok", <<>>))
  /\ awaiting' = Command("unstagedNames", <<>>)
  /\ issued' = Append(issued, Command("unstagedNames", <<>>))
  /\ UNCHANGED <<config, phase, status, unstagedFiles, untrackedFiles, fileIdx,
                 sections, diffParts, snapshot, error, aloneVars>>

\* line 71 resolved; lines 73-80 skip both other lists when includeOnlyStaged
StagedNamesDone(stdout) ==
  /\ phase = "running"
  /\ awaiting.op = "stagedNames"
  /\ stagedFiles' = parseLines(Trim(stdout))
  /\ outcomes' = Append(outcomes, Outcome("ok", <<>>))
  /\ IF config.includeOnlyStaged
     THEN /\ unstagedFiles' = <<>>
          /\ untrackedFiles' = <<>>
          /\ Continue(stagedFiles', <<>>, <<>>, 1, 1, <<>>, <<>>)
     ELSE /\ awaiting' = Command("unstagedNames", <<>>)
          /\ issued' = Append(issued, Command("unstagedNames", <<>>))
          /\ UNCHANGED <<phase, unstagedFiles, untrackedFiles, fileIdx, sections,
                         diffParts, snapshot>>
  /\ UNCHANGED <<config, status, error, aloneVars>>

\* line 75 resolved, line 79 issued
UnstagedNamesDone(stdout) ==
  /\ phase = "running"
  /\ awaiting.op = "unstagedNames"
  /\ unstagedFiles' = parseLines(Trim(stdout))
  /\ outcomes' = Append(outcomes, Outcome("ok", <<>>))
  /\ awaiting' = Command("untrackedNames", <<>>)
  /\ issued' = Append(issued, Command("untrackedNames", <<>>))
  /\ UNCHANGED <<config, phase, status, stagedFiles, untrackedFiles, fileIdx,
                 sections, diffParts, snapshot, error, aloneVars>>

\* line 79 resolved; lines 82-91 enter the loop
UntrackedNamesDone(stdout) ==
  /\ phase = "running"
  /\ awaiting.op = "untrackedNames"
  /\ untrackedFiles' = parseLines(Trim(stdout))
  /\ outcomes' = Append(outcomes, Outcome("ok", <<>>))
  /\ Continue(stagedFiles, unstagedFiles, untrackedFiles', 1, 1, <<>>, <<>>)
  /\ UNCHANGED <<config, status, stagedFiles, unstagedFiles, error, aloneVars>>

\* mutant of StagedDiffDone: the loop body goes on at the untracked test
StagedDiffDone_SkipsUnstaged(stdout) ==
  /\ phase = "running"
  /\ awaiting.op = "stagedDiff"
  /\ outcomes' = Append(outcomes, Outcome("ok", <<>>))
  /\ Continue(stagedFiles, unstagedFiles, untrackedFiles, fileIdx, 3,
              PushSection(sections, "staged", Trim(stdout)), diffParts)
  /\ UNCHANGED <<config, status, stagedFiles, unstagedFiles, untrackedFiles,
                 error, aloneVars>>

\* lines 95-102
StagedDiffDone(stdout) ==
  /\ phase = "running"
  /\ awaiting.op = "stagedDiff"
  /\ outcomes' = Append(outcomes, Outcome("ok", <<>>))
  /\ Continue(stagedFiles, unstagedFiles, untrackedFiles, fileIdx, 2,
              PushSection(sections, "staged", Trim(stdout)), diffParts)
  /\ UNCHANGED <<config, status, stagedFiles, unstagedFiles, untrackedFiles,
                 error, aloneVars>>

\* lines 106-113
UnstagedDiffDone(stdout) ==
  /\ phase = "running"
  /\ awaiting.op = "unstagedDiff"
  /\ outcomes' = Append(outcomes, Outcome("ok", <<>>))
  /\ Continue(stagedFiles, unstagedFiles, untrackedFiles, fileIdx, 3,
              PushSection(sections, "unstaged", Trim(stdout)), diffParts)
  /\ UNCHANGED <<config, status, stagedFiles, unstagedFiles, untrackedFiles,
                 error, aloneVars>>

\* readUntrackedFileContent returned `content`: lines 117-121
UntrackedContent(content) ==
  /\ Continue(stagedFiles, unstagedFiles, untrackedFiles, fileIdx, 4,
              PushSection(sections, "untracked", content), diffParts)
  /\ UNCHANGED <<config, status, stagedFiles, unstagedFiles, untrackedFiles,
                 error, aloneVars>>

\* line 188 resolved with a regular file: line 193 issued
StatIsFile ==
  /\ phase = "running"
  /\ awaiting.op = "stat"
  /\ outcomes' = Append(outcomes, Outcome("isFile", <<>>))
  /\ awaiting' = Command("readFile", awaiting.path)
  /\ issued' = Append(issued, Command("readFile", awaiting.path))
  /\ UNCHANGED <<config, phase, status, stagedFiles, unstagedFiles,
                 untrackedFiles, fileIdx, sections, diffParts, snapshot, error,
                 aloneVars>>

\* line 188 resolved with something else: line 190
StatNotFile ==
  /\ phase = "running"
  /\ awaiting.op = "stat"
  /\ outcomes' = Append(outcomes, Outcome("notFile", <<>>))
  /\ UntrackedContent(SkippedNonRegular)

\* line 193 resolved: lines 194-199
ReadFileDone(buffer) ==
  /\ phase = "running"
  /\ awaiting.op = "readFile"
  /\ outcomes' = Append(outcomes, Outcome("ok", buffer))
  /\ UntrackedContent(contentOfBuffer(buffer))

\* fs.stat or fs.readFile threw: the catch of lines 200-203
FsFails(reason) ==
  /\ phase = "running"
  /\ awaiting.op \in FsOps
  /\ outcomes' = Append(outcomes, Outcome("error", reason))
  /\ UntrackedContent(UnavailableText(reason))

CollectInit ==
  /\ config \in Configs
  /\ phase = "idle"
  /\ awaiting = NoCommand
  /\ issued = <<>>
  /\ outcomes = <<>>
  /\ status = <<>>
  /\ stagedFiles = <<>>
  /\ unstagedFiles = <<>>
  /\ untrackedFiles = <<>>
  /\ fileIdx = 1
  /\ sections = <<>>
  /\ diffParts = <<>>
  /\ snapshot = NoSnapshot
  /\ error = NoError
  /\ trimText = <<>>
  /\ trimBudget = 0
  /\ trimOut = NoTrim
  /\ mergeOut = NoMerge
  /\ LaterOff

CollectNext ==
  \/ Collect
  \/ GitFails
  \/ \E stdout \in StatusStdouts : StatusDone(stdout)
  \/ \E stdout \in NameStdouts : StagedNamesDone(stdout)
  \/ \E stdout \in NameStdouts : UnstagedNamesDone(stdout)
  \/ \E stdout \in NameStdouts : UntrackedNamesDone(stdout)
  \/ \E stdout \in DiffStdouts : StagedDiffDone(stdout)
  \/ \E stdout \in DiffStdouts : UnstagedDiffDone(stdout)
  \/ StatIsFile
  \/ StatNotFile
  \/ \E buffer \in FileBuffers : ReadFileDone(buffer)
  \/ \E reason \in FsReasons : FsFails(reason)

\* one invocation of collectRepositoryChanges
SpecCollect == CollectInit /\ [][CollectNext]_vars

(***************************************************************************)
(* trimUtf8 called alone                                                   *)
(***************************************************************************)
Texts == UNION {[1..n -> TextAlphabet] : n \in 0..MaxTextLen}

TrimCall ==
  /\ trimOut = NoTrim
  /\ trimOut' = trimUtf8(trimText, trimBudget)
  /\ UNCHANGED <<trimText, trimBudget, mergeOut, collectVars, laterVars>>

TrimInit ==
  /\ trimText \in Texts
  /\ trimBudget \in 0..MaxBudget
  /\ trimOut = NoTrim
  /\ mergeOut = NoMerge
  /\ config = IdleConfig
  /\ phase = "off"
  /\ awaiting = NoCommand
  /\ issued = <<>>
  /\ outcomes = <<>>
  /\ status = <<>>
  /\ stagedFiles = <<>>
  /\ unstagedFiles = <<>>
  /\ untrackedFiles = <<>>
  /\ fileIdx = 1
  /\ sections = <<>>
  /\ diffParts = <<>>
  /\ snapshot = NoSnapshot
  /\ error = NoError
  /\ LaterOff

TrimNext == TrimCall

SpecTrim == TrimInit /\ [][TrimNext]_vars

(***************************************************************************)
(* Lines 82-84 and 136 run alone on three arbitrary lists                  *)
(***************************************************************************)
MergeCall ==
  /\ mergeOut = NoMerge
  /\ LET all == allChangedFilesOf(stagedFiles, unstagedFiles, untrackedFiles)
         limited == limitedFilesOf(all, config.maxChangedFiles)
     IN mergeOut' =
          [allChangedFiles |-> all,
           totalChangedFiles |->
             BuildSnapshot(config, status, all, limited, <<>>).totalChangedFiles]
  /\ UNCHANGED <<collectVars, trimText, trimBudget, trimOut, laterVars>>

MergeInit ==
  /\ stagedFiles \in PathLists
  /\ unstagedFiles \in PathLists
  /\ untrackedFiles \in PathLists
  /\ config = IdleConfig
  /\ mergeOut = NoMerge
  /\ phase = "off"
  /\ awaiting = NoCommand
  /\ issued = <<>>
  /\ outcomes = <<>>
  /\ status = <<>>
  /\ fileIdx = 1
  /\ sections = <<>>
  /\ diffParts = <<>>
  /\ snapshot = NoSnapshot
  /\ error = NoError
  /\ trimText = <<>>
  /\ trimBudget = 0
  /\ trimOut = NoTrim
  /\ LaterOff

MergeNext == MergeCall

SpecMerge == MergeInit /\ [][MergeNext]_vars

\* collectRepositoryChanges, trimUtf8 and lines 82-84 are not part of the run
CollectOff ==
  /\ config = IdleConfig
  /\ phase = "off"
  /\ awaiting = NoCommand
  /\ issued = <<>>
  /\ outcomes = <<>>
  /\ status = <<>>
  /\ stagedFiles = <<>>
  /\ unstagedFiles = <<>>
  /\ untrackedFiles = <<>>
  /\ fileIdx = 1
  /\ sections = <<>>
  /\ diffParts = <<>>
  /\ snapshot = NoSnapshot
  /\ error = NoError
  /\ trimText = <<>>
  /\ trimBudget = 0
  /\ trimOut = NoTrim
  /\ mergeOut = NoMerge

(***************************************************************************)
(* looksBinary called alone                                                *)
(***************************************************************************)
Repeat(byte, n) == [i \in 1..n |-> byte]

\* how many control bytes (0x07) open the buffer, how many text bytes ("a")
\* follow them, and what comes last; the counts sit on both sides of the
\* 10% ratio for samples of 9, 10 and 1024 bytes
ControlRuns == {0, 1, 2, 102, 103}
TextRuns == {0, 8, 9, 10, 18, 921, 922, 1024}
BufferTails == {<<>>, <<0>>, <<7>>, <<7, 7>>, <<9, 10, 13>>, <<31, 127, 255>>}

BinaryBuffers ==
  {Repeat(7, c) \o Repeat(97, t) \o tail :
     <<c, t, tail>> \in ControlRuns \X TextRuns \X BufferTails}

BinaryCall ==
  /\ binaryCall # Off
  /\ ~binaryCall.returned
  /\ binaryCall' = [binaryCall EXCEPT !.returned = TRUE,
                                      !.result = looksBinary(binaryCall.buffer)]
  /\ UNCHANGED <<collectVars, trimText, trimBudget, trimOut, mergeOut,
                 promptCall, configCall, wizard, command, picker>>

BinaryInit ==
  /\ binaryCall \in [buffer : BinaryBuffers, returned : {FALSE}, result : {FALSE}]
  /\ CollectOff
  /\ promptCall = Off
  /\ configCall = Off
  /\ wizard = Off
  /\ command = Off
  /\ picker = Off

BinaryNext == BinaryCall

SpecBinary == BinaryInit /\ [][BinaryNext]_vars

(***************************************************************************)
(* buildPrompt (part_003, lines 155-197)                                   *)
(***************************************************************************)
\* 'Task: Create one detailed git commit message based on the repository
\* changes.'
TaskStatement ==
  <<84, 97, 115, 107, 58, 32, 67, 114, 101, 97, 116, 101, 32, 111, 110, 101,
  32, 100, 101, 116, 97, 105, 108, 101, 100, 32, 103, 105, 116, 32, 99, 111,
  109, 109, 105, 116, 32, 109, 101, 115, 115, 97, 103, 101, 32, 98, 97, 115,
  101, 100, 32, 111, 110, 32, 116, 104, 101, 32, 114, 101, 112, 111, 115, 105,
  116, 111, 114, 121, 32, 99, 104, 97, 110, 103, 101, 115, 46>>

\* 'Rules:\n'
RulesHeader ==
  <<82, 117, 108, 101, 115, 58, 10>>

\* 'Additional rules:\n'
AdditionalRulesHeader ==
  <<65, 100, 100, 105, 116, 105, 111, 110, 97, 108, 32, 114, 117, 108, 101,
  115, 58, 10>>

\* the first section of either branch of `if (config.language === 'zh')`:
\* the language requirement, in Chinese or in English
LanguageRequirement(language) ==
  IF language = "zh"
  THEN
    <<35821, 35328, 35201, 27714, 65306, 36755, 20986, 24517, 39035, 20026,
    31616, 20307, 20013, 25991, 12290>>
  ELSE
    <<76, 97, 110, 103, 117, 97, 103, 101, 32, 114, 101, 113, 117, 105, 114,
    101, 109, 101, 110, 116, 58, 32, 79, 117, 116, 112, 117, 116, 32, 109, 117,
    115, 116, 32, 98, 101, 32, 105, 110, 32, 69, 110, 103, 108, 105, 115, 104,
    46>>

\* the second section of either branch: '输出约束:\n- ...' or
\* 'Output constraints:\n- ...', seven lines of constraints each
OutputConstraints(language) ==
  IF language = "zh"
  THEN
    <<36755, 20986, 32422, 26463, 58, 10, 45, 32, 36755, 20986, 32, 49, 32,
    26465, 23436, 25972, 25552, 20132, 20449, 24687, 65288, 21487, 22810, 34892,
    65289, 10, 45, 32, 31532, 19968, 34892, 26684, 24335, 65306, 60, 103, 105,
    116, 109, 111, 106, 105, 62, 32, 60, 116, 121, 112, 101, 62, 40, 21487,
    36873, 115, 99, 111, 112, 101, 41, 58, 32, 60, 115, 117, 98, 106, 101, 99,
    116, 62, 10, 45, 32, 21518, 32493, 27599, 34892, 25551, 36848, 19968, 20010,
    20855, 20307, 25913, 21160, 28857, 10, 45, 32, 19981, 35201, 20351, 29992,
    32, 109, 97, 114, 107, 100, 111, 119, 110, 10, 45, 32, 19981, 35201, 21152,
    24341, 21495, 10, 45, 32, 20882, 21495, 21518, 24517, 39035, 26377, 20027,
    39064, 20869, 23481, 10, 45, 32, 20027, 39064, 24517, 39035, 20855, 20307,
    65292, 19981, 33021, 21482, 20889, 8220, 28155, 21152, 47, 20462, 25913, 47,
    26356, 26032, 8221, 31561, 27867, 21270, 35789>>
  ELSE
    <<79, 117, 116, 112, 117, 116, 32, 99, 111, 110, 115, 116, 114, 97, 105,
    110, 116, 115, 58, 10, 45, 32, 82, 101, 116, 117, 114, 110, 32, 111, 110,
    101, 32, 99, 111, 109, 112, 108, 101, 116, 101, 32, 99, 111, 109, 109, 105,
    116, 32, 109, 101, 115, 115, 97, 103, 101, 32, 40, 109, 117, 108, 116, 105,
    112, 108, 101, 32, 108, 105, 110, 101, 115, 32, 97, 108, 108, 111, 119, 101,
    100, 41, 10, 45, 32, 70, 105, 114, 115, 116, 32, 108, 105, 110, 101, 32,
    102, 111, 114, 109, 97, 116, 58, 32, 60, 103, 105, 116, 109, 111, 106, 105,
    62, 32, 60, 116, 121, 112, 101, 62, 40, 111, 112, 116, 105, 111, 110, 97,
    108, 45, 115, 99, 111, 112, 101, 41, 58, 32, 60, 115, 117, 98, 106, 101, 99,
    116, 62, 10, 45, 32, 69, 97, 99, 104, 32, 102, 111, 108, 108, 111, 119, 105,
    110, 103, 32, 108, 105, 110, 101, 32, 115, 104, 111, 117, 108, 100, 32, 100,
    101, 115, 99, 114, 105, 98, 101, 32, 111, 110, 101, 32, 99, 111, 110, 99,
    114, 101, 116, 101, 32, 99, 104, 97, 110, 103, 101, 10, 45, 32, 68, 111, 32,
    110, 111, 116, 32, 117, 115, 101, 32, 109, 97, 114, 107, 100, 111, 119, 110,
    10, 45, 32, 68, 111, 32, 110, 111, 116, 32, 119, 114, 97, 112, 32, 105, 110,
    32, 113, 117, 111, 116, 101, 115, 10, 45, 32, 83, 117, 98, 106, 101, 99,
    116, 32, 109, 117, 115, 116, 32, 101, 120, 105, 115, 116, 32, 97, 102, 116,
    101, 114, 32, 34, 58, 34, 10, 45, 32, 83, 117, 98, 106, 101, 99, 116, 32,
    109, 117, 115, 116, 32, 98, 101, 32, 115, 112, 101, 99, 105, 102, 105, 99,
    32, 97, 110, 100, 32, 110, 111, 116, 32, 103, 101, 110, 101, 114, 105, 99,
    32, 119, 111, 114, 100, 115, 32, 108, 105, 107, 101, 32, 34, 117, 112, 100,
    97, 116, 101, 34, 32, 111, 114, 32, 34, 99, 104, 97, 110, 103, 101, 115,
    34>>

\* 'Git status (short):\n'
GitStatusHeader ==
  <<71, 105, 116, 32, 115, 116, 97, 116, 117, 115, 32, 40, 115, 104, 111, 114,
  116, 41, 58, 10>>

\* 'Git diff:\n'
GitDiffHeader ==
  <<71, 105, 116, 32, 100, 105, 102, 102, 58, 10>>

\* '(no diff provided)'
NoDiffProvided ==
  <<40, 110, 111, 32, 100, 105, 102, 102, 32, 112, 114, 111, 118, 105, 100,
  101, 100, 41>>

\* 'Note: Diff content was truncated for performance limits.'
TruncationNote ==
  <<78, 111, 116, 101, 58, 32, 68, 105, 102, 102, 32, 99, 111, 110, 116, 101,
  110, 116, 32, 119, 97, 115, 32, 116, 114, 117, 110, 99, 97, 116, 101, 100,
  32, 102, 111, 114, 32, 112, 101, 114, 102, 111, 114, 109, 97, 110, 99, 101,
  32, 108, 105, 109, 105, 116, 115, 46>>

\* a number in a template literal: its decimal digits
RECURSIVE Decimal(_)
Decimal(n) ==
  IF n < 10 THEN <<48 + n>>
  ELSE Append(Decimal(n \div 10), 48 + (n % 10))

\* `Note: Changed files were limited to ${included}/${total} by
\* maxChangedFiles.`
FileLimitNote(included, total) ==
    <<78, 111, 116, 101, 58, 32, 67, 104, 97, 110, 103, 101, 100, 32, 102, 105,
    108, 101, 115, 32, 119, 101, 114, 101, 32, 108, 105, 109, 105, 116, 101,
    100, 32, 116, 111, 32>>
    \o Decimal(included) \o <<47>> \o Decimal(total) \o
    <<32, 98, 121, 32, 109, 97, 120, 67, 104, 97, 110, 103, 101, 100, 70, 105,
    108, 101, 115, 46>>

\* mutant of promptSections: `if (snapshot.status)` for
\* `if (snapshot.status.trim())`
promptSections_StatusUntrimmed(snap, cfg) ==
  LET s1 == <<TaskStatement, RulesHeader \o cfg.ruleTemplate>>
      s2 == IF Trim(cfg.additionalRules) # <<>>
            THEN Append(s1, AdditionalRulesHeader \o Trim(cfg.additionalRules))
            ELSE s1
      s3 == s2 \o <<LanguageRequirement(cfg.language), OutputConstraints(cfg.language)>>
      s4 == IF snap.status # <<>>
            THEN Append(s3, GitStatusHeader \o snap.status)
            ELSE s3
      s5 == Append(s4, GitDiffHeader \o
                         (IF snap.diff # <<>> THEN snap.diff ELSE NoDiffProvided))
      s6 == IF snap.wasFileLimited
            THEN Append(s5, FileLimitNote(snap.includedChangedFiles,
                                          snap.totalChangedFiles))
            ELSE s5
  IN IF snap.wasTruncated THEN Append(s6, TruncationNote) ELSE s6

\* mutant of promptSections: the truncation note is never pushed
promptSections_NoTruncationNote(snap, cfg) ==
  LET s1 == <<TaskStatement, RulesHeader \o cfg.ruleTemplate>>
      s2 == IF Trim(cfg.additionalRules) # <<>>
            THEN Append(s1, AdditionalRulesHeader \o Trim(cfg.additionalRules))
            ELSE s1
      s3 == s2 \o <<LanguageRequirement(cfg.language), OutputConstraints(cfg.language)>>
      s4 == IF Trim(snap.status) # <<>>
            THEN Append(s3, GitStatusHeader \o snap.status)
            ELSE s3
      s5 == Append(s4, GitDiffHeader \o
                         (IF snap.diff # <<>> THEN snap.diff ELSE NoDiffProvided))
  IN IF snap.wasFileLimited
     THEN Append(s5, FileLimitNote(snap.includedChangedFiles,
                                   snap.totalChangedFiles))
     ELSE s5

\* the array `sections` at line 193, after the pushes of lines 158-191
promptSections(snap, cfg) ==
  LET s1 == <<TaskStatement, RulesHeader \o cfg.ruleTemplate>>
      s2 == IF Trim(cfg.additionalRules) # <<>>
            THEN Append(s1, AdditionalRulesHeader \o Trim(cfg.additionalRules))
            ELSE s1
      s3 == s2 \o <<LanguageRequirement(cfg.language), OutputConstraints(cfg.language)>>
      s4 == IF Trim(snap.status) # <<>>
            THEN Append(s3, GitStatusHeader \o snap.status)
            ELSE s3
      s5 == Append(s4, GitDiffHeader \o
                         (IF snap.diff # <<>> THEN snap.diff ELSE NoDiffProvided))
      s6 == IF snap.wasFileLimited
            THEN Append(s5, FileLimitNote(snap.includedChangedFiles,
                                          snap.totalChangedFiles))
            ELSE s5
  IN IF snap.wasTruncated THEN Append(s6, TruncationNote) ELSE s6

\* lines 193-196
buildPrompt(snap, cfg) ==
  [systemPrompt |-> cfg.systemPrompt,
   userPrompt |-> Join(promptSections(snap, cfg), BlankLine)]

\* snapshots as buildPrompt's type admits them: status empty, blank or
\* " M a"; diff empty or one block; either flag; one- and two-digit counts
PromptSnapshots ==
  [status : {<<>>, <<32, 10>>, <<32, 77, 32, 97>>},
   diff : {<<>>, BlockPrefix \o <<97>> \o NL \o StagedHeader \o <<43, 233>>},
   wasTruncated : BOOLEAN,
   wasFileLimited : BOOLEAN,
   totalChangedFiles : {2, 12},
   includedChangedFiles : {2}]

\* the fields of ExtensionConfig buildPrompt reads, as readConfig leaves
\* them: systemPrompt and ruleTemplate trimmed and never empty (part_000,
\* lines 64-65), additionalRules raw (line 66)
PromptConfigs ==
  [systemPrompt : {<<115>>, <<115, 50>>},
   ruleTemplate : {<<114>>},
   additionalRules : {<<>>, <<32, 32>>, <<32, 120, 10>>},
   language : {"zh", "en"}]

PromptCall ==
  /\ promptCall # Off
  /\ ~promptCall.returned
  /\ promptCall' =
       [promptCall EXCEPT !.returned = TRUE,
                          !.out = buildPrompt(promptCall.snapshot, promptCall.config)]
  /\ UNCHANGED <<collectVars, trimText, trimBudget, trimOut, mergeOut,
                 binaryCall, configCall, wizard, command, picker>>

PromptInit ==
  /\ promptCall \in [snapshot : PromptSnapshots, config : PromptConfigs,
                      returned : {FALSE},
                      out : {[systemPrompt |-> <<>>, userPrompt |-> <<>>]}]
  /\ CollectOff
  /\ binaryCall = Off
  /\ configCall = Off
  /\ wizard = Off
  /\ command = Off
  /\ picker = Off

PromptNext == PromptCall

SpecPrompt == PromptInit /\ [][PromptNext]_vars

(***************************************************************************)
(* getConfigValue, as readConfig calls it for 'provider' (part_000)        *)
(***************************************************************************)
Undefined == "undefined"

Providers == {"openai", "deepseek", "custom"}

\* what cfg.inspect(key) returns: nothing, or the value of the key at each
\* level, each of them possibly undefined
InspectResults ==
  [found : {TRUE},
   defaultValue : Providers \cup {Undefined},
   globalValue : Providers \cup {Undefined},
   workspaceValue : Providers \cup {Undefined},
   workspaceFolderValue : Providers \cup {Undefined}]
  \cup
  [found : {FALSE}, defaultValue : {Undefined}, globalValue : {Undefined},
   workspaceValue : {Undefined}, workspaceFolderValue : {Undefined}]

\* lines 91-106
getConfigValue(inspected, fallback) ==
  IF ~inspected.found THEN fallback
  ELSE IF inspected.globalValue # Undefined THEN inspected.globalValue
  ELSE IF inspected.workspaceFolderValue # Undefined
  THEN inspected.workspaceFolderValue
  ELSE IF inspected.workspaceValue # Undefined THEN inspected.workspaceValue
  ELSE IF inspected.defaultValue # Undefined THEN inspected.defaultValue
  ELSE fallback

\* readConfig, line 43: provider = getConfigValue(cfg, 'provider', 'openai')
ConfigCall ==
  /\ configCall # Off
  /\ ~configCall.returned
  /\ configCall' =
       [configCall EXCEPT !.returned = TRUE,
                          !.provider = getConfigValue(configCall.inspected, "openai")]
  /\ UNCHANGED <<collectVars, trimText, trimBudget, trimOut, mergeOut,
                 binaryCall, promptCall, wizard, command, picker>>

ConfigInit ==
  /\ configCall \in [inspected : InspectResults, returned : {FALSE},
                      provider : {Undefined}]
  /\ CollectOff
  /\ binaryCall = Off
  /\ promptCall = Off
  /\ wizard = Off
  /\ command = Off
  /\ picker = Off

ConfigNext == ConfigCall

SpecConfig == ConfigInit /\ [][ConfigNext]_vars

(***************************************************************************)
(* openSetupWizard (setupWizard.ts).  A prompt resolves with a value or,   *)
(* when the user dismisses it, with undefined: `answer.given` tells which. *)
(* Each action is the completion of one prompt with the code that follows  *)
(* it up to the next prompt, the awaited updateSetting calls included.     *)
(***************************************************************************)
\* what a prompt may resolve with: undefined, or one of `values`
Answers(values) ==
  [given : {TRUE}, value : values] \cup [given : {FALSE}, value : {Undefined}]

\* lines 174-180
normalizeRequestPath(value) ==
  LET trimmed == Trim(value)
  IN IF trimmed = <<>> THEN <<>>
     ELSE IF Head(trimmed) = 47 THEN trimmed
     ELSE <<47>> \o trimmed

\* updateSetting(key, value): one entry of the log of configuration updates
Setting(key, value) ==
  [key |-> key, value |-> value,
   target |-> IF wizard.hasFolders THEN "Workspace" ELSE "Global"]

\* mutant of AfterPrompt: the settings are written before `undefined` is
\* tested for
AfterPrompt_WritesBeforeCheck(step, answer, settings, nextStep) ==
  LET w == [wizard EXCEPT !.answers = Append(@, [step |-> step, answer |-> answer]),
                          !.writes = @ \o settings]
  IN IF ~answer.given
     THEN wizard' = [w EXCEPT !.pc = "done", !.result = "false"]
     ELSE IF nextStep = "done"
     THEN wizard' = [w EXCEPT !.pc = "done", !.result = "true"]
     ELSE wizard' = [w EXCEPT !.pc = nextStep, !.prompts = Append(@, nextStep)]

\* the code after a prompt: `return false` on undefined, else the
\* updateSetting calls, then the next prompt or `return true`
AfterPrompt(step, answer, settings, nextStep) ==
  LET w == [wizard EXCEPT !.answers = Append(@, [step |-> step, answer |-> answer])]
  IN IF ~answer.given
     THEN wizard' = [w EXCEPT !.pc = "done", !.result = "false"]
     ELSE IF nextStep = "done"
     THEN wizard' = [w EXCEPT !.pc = "done", !.result = "true",
                              !.writes = @ \o settings]
     ELSE wizard' = [w EXCEPT !.pc = nextStep, !.prompts = Append(@, nextStep),
                              !.writes = @ \o settings]

wizardFrame ==
  UNCHANGED <<collectVars, trimText, trimBudget, trimOut, mergeOut,
              binaryCall, promptCall, configCall, command, picker>>

\* the call: line 10 shows the language quick pick
OpenWizard ==
  /\ wizard # Off
  /\ wizard.pc = "start"
  /\ wizard' = [wizard EXCEPT !.pc = "language", !.prompts = <<"language">>]
  /\ wizardFrame

\* lines 10-19
LanguagePicked(answer) ==
  /\ wizard # Off
  /\ wizard.pc = "language"
  /\ AfterPrompt("language", answer, <<Setting("language", answer.value)>>,
                 "provider")
  /\ wizardFrame

\* lines 19-27; the branch of line 64 reads `provider` again
ProviderPicked(answer) ==
  /\ wizard # Off
  /\ wizard.pc = "provider"
  /\ AfterPrompt("provider", answer, <<Setting("provider", answer.value)>>,
                 "model")
  /\ wizardFrame

\* lines 27-39: pickModel has resolved
ModelPicked(answer) ==
  /\ wizard # Off
  /\ wizard.pc = "model"
  /\ AfterPrompt("model", answer,
                 IF answer.given THEN <<Setting("model", Trim(answer.value))>>
                 ELSE <<>>,
                 "apiKey")
  /\ wizardFrame

\* lines 33-58: a blank key is not written
ApiKeyEntered(answer) ==
  /\ wizard # Off
  /\ wizard.pc = "apiKey"
  /\ AfterPrompt("apiKey", answer,
                 IF answer.given /\ Trim(answer.value) # <<>>
                 THEN <<Setting("apiKey", Trim(answer.value))>>
                 ELSE <<>>,
                 "baseUrl")
  /\ wizardFrame

\* const provider (line 19): what the second prompt resolved with
ProviderOf(w) == w.answers[2].answer.value

\* lines 48-88; validateInput keeps a blank URL from being submitted when
\* the provider is custom
BaseUrlEntered(answer) ==
  /\ wizard # Off
  /\ wizard.pc = "baseUrl"
  /\ (answer.given /\ ProviderOf(wizard) = "custom") => Trim(answer.value) # <<>>
  /\ IF ProviderOf(wizard) = "openai"
     THEN AfterPrompt("baseUrl", answer,
                      IF answer.given
                      THEN <<Setting("baseUrl", Trim(answer.value))>> ELSE <<>>,
                      "requestPath")
     ELSE AfterPrompt("baseUrl", answer,
                      IF answer.given
                      THEN <<Setting("baseUrl", Trim(answer.value)),
                             Setting("customRequestPath", <<>>)>>
                      ELSE <<>>,
                      "extraHeaders")
  /\ wizardFrame

\* lines 67-88
RequestPathEntered(answer) ==
  /\ wizard # Off
  /\ wizard.pc = "requestPath"
  /\ AfterPrompt("requestPath", answer,
                 IF answer.given
                 THEN <<Setting("customRequestPath", normalizeRequestPath(answer.value))>>
                 ELSE <<>>,
                 "extraHeaders")
  /\ wizardFrame

\* lines 82-107
HeadersEntered(answer) ==
  /\ wizard # Off
  /\ wizard.pc = "extraHeaders"
  /\ AfterPrompt("extraHeaders", answer,
                 IF answer.given
                 THEN <<Setting("extraHeaders",
                                IF Trim(answer.value) # <<>> THEN Trim(answer.value)
                                ELSE <<123, 125>>)>>
                 ELSE <<>>,
                 "clipboard")
  /\ wizardFrame

\* lines 96-113
ClipboardPicked(answer) ==
  /\ wizard # Off
  /\ wizard.pc = "clipboard"
  /\ AfterPrompt("clipboard", answer,
                 <<Setting("copyToClipboard", answer.value)>>, "done")
  /\ wizardFrame

WizardInit ==
  /\ wizard \in [pc : {"start"}, hasFolders : BOOLEAN, prompts : {<<>>},
                  answers : {<<>>}, writes : {<<>>}, result : {"pending"}]
  /\ CollectOff
  /\ binaryCall = Off
  /\ promptCall = Off
  /\ configCall = Off
  /\ command = Off
  /\ picker = Off

\* what the user may give each prompt: "zh"/"en"; a provider; a model name;
\* an API key, possibly blank; a base URL; a request path with or without
\* its slash; headers that validateHeaders lets through; yes/no
WizardNext ==
  \/ OpenWizard
  \/ \E answer \in Answers({"zh", "en"}) : LanguagePicked(answer)
  \/ \E answer \in Answers(Providers) : ProviderPicked(answer)
  \/ \E answer \in Answers({<<109>>}) : ModelPicked(answer)
  \/ \E answer \in Answers({<<>>, <<32>>, <<32, 107>>}) : ApiKeyEntered(answer)
  \/ \E answer \in Answers({<<>>, <<117, 32>>}) : BaseUrlEntered(answer)
  \/ \E answer \in Answers({<<>>, <<118>>, <<47, 118>>}) : RequestPathEntered(answer)
  \/ \E answer \in Answers({<<>>, <<123, 125, 32>>}) : HeadersEntered(answer)
  \/ \E answer \in Answers(BOOLEAN) : ClipboardPicked(answer)

SpecWizard == WizardInit /\ [][WizardNext]_vars

(***************************************************************************)
(* runGenerateCommitMessage (extension.ts).  One action per awaited        *)
(* promise that settles, with the code up to the next await.  `boxes` are  *)
(* the inputBox values of gitApi.repositories, `messages` what was shown.  *)
(***************************************************************************)
\* git.ts lines 39-62: the index of the repository picked, 0 for undefined.
\* fromContext is the index of the repository whose root is the root of
\* scmContext, fromEditor that of the longest root holding the active file;
\* either is 0 when there is none.
pickRepository(repositories, fromContext, fromEditor) ==
  IF Len(repositories) = 0 THEN 0
  ELSE IF fromContext # 0 THEN fromContext
  ELSE IF fromEditor # 0 THEN fromEditor
  ELSE 1

ErrorMessage(text) == [kind |-> "error", text |-> text]

InformationMessage(text) == [kind |-> "information", text |-> text]

commandFrame ==
  UNCHANGED <<collectVars, trimText, trimBudget, trimOut, mergeOut,
              binaryCall, promptCall, configCall, wizard, picker>>

\* lines 22-25: readConfig, then getGitApi is awaited
RunCommand ==
  /\ command # Off
  /\ command.pc = "start"
  /\ command' = [command EXCEPT !.pc = "getGitApi"]
  /\ commandFrame

\* getGitApi resolved with undefined: lines 27-30
GitApiMissing ==
  /\ command # Off
  /\ command.pc = "getGitApi"
  /\ command' = [command EXCEPT
       !.pc = "done",
       !.messages = Append(@, ErrorMessage("Git extension is unavailable"))]
  /\ commandFrame

\* a promise awaited inside the try rejected (extension.activate, the
\* collection, the LLM client or the clipboard): lines 63-66
AwaitRejected ==
  /\ command # Off
  /\ command.pc \in {"getGitApi", "collect", "generate", "clipboard"}
  /\ command' = [command EXCEPT
       !.pc = "done",
       !.failedAt = command.pc,
       !.messages = Append(@, ErrorMessage("AutoGit LLM failed"))]
  /\ commandFrame

\* getGitApi resolved with the API: lines 32-46, up to the await of
\* collectRepositoryChanges
GitApiReady ==
  /\ command # Off
  /\ command.pc = "getGitApi"
  /\ LET repository == pickRepository(command.boxes, command.fromContext,
                                      command.fromEditor)
     IN IF repository = 0
        THEN command' = [command EXCEPT
               !.pc = "done",
               !.messages = Append(@, ErrorMessage("No Git repository found"))]
        ELSE command' = [command EXCEPT !.repository = repository,
                                        !.pc = "collect"]
  /\ commandFrame

\* mutant of CollectResolved: the status is not looked at
CollectResolved_NoStatusTest(snap) ==
  /\ command # Off
  /\ command.pc = "collect"
  /\ command' = [command EXCEPT
       !.status = snap.status,
       !.pc = "generate",
       !.requests = Append(@, buildPrompt(snap, command.config))]
  /\ commandFrame

\* collectRepositoryChanges resolved: lines 46-52, up to the await of
\* generateCommitText
CollectResolved(snap) ==
  /\ command # Off
  /\ command.pc = "collect"
  /\ IF Trim(snap.status) = <<>>
     THEN command' = [command EXCEPT
            !.status = snap.status,
            !.pc = "done",
            !.messages = Append(@, InformationMessage("No changes detected"))]
     ELSE command' = [command EXCEPT
            !.status = snap.status,
            !.pc = "generate",
            !.requests = Append(@, buildPrompt(snap, command.config))]
  /\ commandFrame

\* generateCommitText resolved: lines 52-61
GenerateResolved(commitMessage) ==
  /\ command # Off
  /\ command.pc = "generate"
  /\ IF command.copyToClipboard
     THEN command' = [command EXCEPT
            !.commitMessage = commitMessage,
            !.boxes[command.repository] = commitMessage,
            !.pc = "clipboard"]
     ELSE command' = [command EXCEPT
            !.commitMessage = commitMessage,
            !.boxes[command.repository] = commitMessage,
            !.pc = "done",
            !.messages = Append(@, InformationMessage("Commit message generated"))]
  /\ commandFrame

\* clipboard.writeText resolved: lines 57-61
ClipboardWritten ==
  /\ command # Off
  /\ command.pc = "clipboard"
  /\ command' = [command EXCEPT
       !.clipboard = command.commitMessage,
       !.pc = "done",
       !.messages = Append(@, InformationMessage("Commit message generated"))]
  /\ commandFrame

\* an input box holds nothing or an earlier message
BoxLists == UNION {[1..n -> {<<>>, <<111>>}] : n \in 0..MaxRepositories}

CommandInit ==
  /\ \E boxes \in BoxLists :
       command \in [pc : {"start"},
                    config : {config0 \in PromptConfigs :
                                config0.language = "en"
                                /\ config0.additionalRules = <<>>},
                    copyToClipboard : BOOLEAN,
                    boxes : {boxes},
                    before : {boxes},
                    fromContext : 0..Len(boxes),
                    fromEditor : 0..Len(boxes),
                    repository : {0},
                    status : {<<>>},
                    requests : {<<>>},
                    commitMessage : {<<>>},
                    clipboard : {<<99>>},
                    failedAt : {"nowhere"},
                    messages : {<<>>}]
  /\ CollectOff
  /\ binaryCall = Off
  /\ promptCall = Off
  /\ configCall = Off
  /\ wizard = Off
  /\ picker = Off

\* the snapshots the collection may resolve with and the texts the LLM
\* client may return
CommandNext ==
  \/ RunCommand
  \/ GitApiMissing
  \/ AwaitRejected
  \/ GitApiReady
  \/ \E snap \in {snap0 \in PromptSnapshots :
                     /\ snap0.status # <<32, 10>>
                     /\ ~snap0.wasTruncated
                     /\ ~snap0.wasFileLimited
                     /\ snap0.totalChangedFiles = 2} : CollectResolved(snap)
  \/ \E commitMessage \in {<<102, 105, 120>>, <<>>} : GenerateResolved(commitMessage)
  \/ ClipboardWritten

SpecCommand == CommandInit /\ [][CommandNext]_vars

(***************************************************************************)
(* pickModel (setupWizard.ts, lines 182-283).  The quick pick's events are *)
(* delivered one at a time: onDidAccept when the user accepts while the    *)
(* quick pick is open, onDidHide some time after quickPick.hide() or after *)
(* the user dismissed it.  `waiting` says that accept() is suspended at    *)
(* the await of the follow-up input box, `log` lists the callbacks and    *)
(* input-box results delivered so far.                                     *)
(***************************************************************************)
\* undefined, as a promise's value
NoValue == [given |-> FALSE, value |-> <<>>]

\* lines 232-239
finish(p, value) ==
  IF p.settled THEN p
  ELSE [p EXCEPT !.settled = TRUE,
                 !.disposed = @ + 1,
                 !.resolved = @ + 1,
                 !.result = value]

\* quickPick.hide() of lines 245, 257 and 264
hidden(p) == [p EXCEPT !.open = FALSE, !.hidePending = TRUE]

pickerFrame ==
  UNCHANGED <<collectVars, trimText, trimBudget, trimOut, mergeOut,
              binaryCall, promptCall, configCall, wizard, command>>

\* the call: lines 188-227, and 229-281 up to quickPick.show(); without
\* suggested models the input box of line 194 is shown instead
ShowPicker ==
  /\ picker # Off
  /\ picker.pc = "start"
  /\ picker' = IF picker.suggested
               THEN [picker EXCEPT !.pc = "quickPick", !.open = TRUE]
               ELSE [picker EXCEPT !.pc = "freeForm"]
  /\ pickerFrame

\* line 194 resolved: line 201
FreeFormEntered(answer) ==
  /\ picker # Off
  /\ picker.pc = "freeForm"
  /\ picker' = [picker EXCEPT
       !.pc = "returned",
       !.resolved = @ + 1,
       !.result = IF answer.given
                  THEN [given |-> TRUE, value |-> Trim(answer.value)]
                  ELSE NoValue]
  /\ pickerFrame

\* onDidAccept with the custom-input item picked: lines 241-251, up to the
\* await of showInputBox
AcceptCustom ==
  /\ picker # Off
  /\ picker.pc = "quickPick"
  /\ picker.open
  /\ picker' = [hidden(picker) EXCEPT !.waiting = TRUE,
                                      !.log = Append(@, <<"accept", "custom">>)]
  /\ pickerFrame

\* onDidAccept with a model item picked, or with none picked and `typed` in
\* the filter box: lines 241-242 and 256-272
AcceptValue(picked, typed) ==
  /\ picker # Off
  /\ picker.pc = "quickPick"
  /\ picker.open
  /\ LET p == [picker EXCEPT !.log = Append(@, <<"accept", picked, typed>>)]
     IN IF picked # <<>>
        THEN picker' = finish(hidden(p), [given |-> TRUE, value |-> Trim(picked)])
        ELSE IF Trim(typed) # <<>>
        THEN picker' = finish(hidden(p), [given |-> TRUE, value |-> Trim(typed)])
        ELSE /\ picker.errors < MaxEmptyAccepts
             /\ picker' = [p EXCEPT !.errors = @ + 1]
  /\ pickerFrame

\* the user dismisses the quick pick: its onDidHide is on the way
UserDismiss ==
  /\ picker # Off
  /\ picker.pc = "quickPick"
  /\ picker.open
  /\ picker' = [hidden(picker) EXCEPT !.log = Append(@, <<"dismiss">>)]
  /\ pickerFrame

\* onDidHide is delivered: line 274
HideDelivered ==
  /\ picker # Off
  /\ picker.hidePending
  /\ picker' = finish([picker EXCEPT !.hidePending = FALSE,
                                     !.log = Append(@, <<"hide">>)], NoValue)
  /\ pickerFrame

\* the follow-up input box of line 246 resolved: lines 246-253
InputBoxDone(answer) ==
  /\ picker # Off
  /\ picker.waiting
  /\ picker' = finish([picker EXCEPT !.waiting = FALSE, !.submitted = answer,
                                     !.log = Append(@, <<"input", answer>>)],
                      IF answer.given
                      THEN [given |-> TRUE, value |-> Trim(answer.value)]
                      ELSE NoValue)
  /\ pickerFrame

PickerInit ==
  /\ picker \in [pc : {"start"}, suggested : BOOLEAN, open : {FALSE},
                 hidePending : {FALSE}, waiting : {FALSE}, settled : {FALSE},
                 disposed : {0}, resolved : {0}, errors : {0},
                 result : {NoValue}, submitted : {NoValue}, log : {<<>>}]
  /\ CollectOff
  /\ binaryCall = Off
  /\ promptCall = Off
  /\ configCall = Off
  /\ wizard = Off
  /\ command = Off

\* model names the user may pick, type or submit; validateInput keeps a
\* blank name from being submitted to an input box
PickerNext ==
  \/ ShowPicker
  \/ \E name \in {<<109>>, <<32, 120, 32>>} :
       FreeFormEntered([given |-> TRUE, value |-> name])
  \/ FreeFormEntered(NoValue)
  \/ AcceptCustom
  \/ \E picked \in {<<>>, <<109>>}, typed \in {<<>>, <<32>>, <<116, 32>>} :
       AcceptValue(picked, typed)
  \/ UserDismiss
  \/ HideDelivered
  \/ \E name \in {<<109>>, <<32, 120, 32>>} :
       InputBoxDone([given |-> TRUE, value |-> name])
  \/ InputBoxDone(NoValue)

SpecPicker == PickerInit /\ [][PickerNext]_vars

(***************************************************************************)
(* Properties                                                              *)
(***************************************************************************)
Min(a, b) == IF a < b THEN a ELSE b

\* position of the first occurrence of x in seq
FirstIndex(seq, x) ==
  CHOOSE k \in 1..Len(seq) : seq[k] = x /\ \A j \in 1..(k - 1) : seq[j] # x

NoRepeats(seq) == Cardinality(Range(seq)) = Len(seq)

MarkerBytes == byteLength(TruncationMarker)

\* C1: the merged list holds each distinct path of staged, unstaged and
\* untracked exactly once, ordered by first occurrence in staged \o unstaged
\* \o untracked, and totalChangedFiles is its length.  (SpecMerge)
C1_MergedListIsFirstSeenDedup ==
  mergeOut # NoMerge =>
    LET all == stagedFiles \o unstagedFiles \o untrackedFiles
        merged == mergeOut.allChangedFiles
    IN /\ Range(merged) = Range(all)
       /\ NoRepeats(merged)
       /\ \A i, j \in 1..Len(merged) :
            i < j => FirstIndex(all, merged[i]) < FirstIndex(all, merged[j])
       /\ mergeOut.totalChangedFiles = Len(merged)

\* C1 witness: lists that overlap and repeat a path inside one list, merged
C1_Witness ==
  /\ mergeOut # NoMerge
  /\ ~NoRepeats(stagedFiles)
  /\ Range(unstagedFiles) \cap Range(untrackedFiles) # {}
  /\ Len(mergeOut.allChangedFiles) = MaxPaths

\* C2: trimUtf8(T, B) never returns more than B + len(marker) bytes, and it
\* returns T itself, not truncated, when byteLength(T) <= B.  (SpecTrim)
C2_TrimByteBound ==
  trimOut # NoTrim =>
    /\ byteLength(trimOut.text) <= trimBudget + MarkerBytes
    /\ byteLength(trimText) <= trimBudget =>
         trimOut.text = trimText /\ ~trimOut.truncated

\* C3: when trimUtf8 truncates, what precedes the marker is a prefix of T:
\* whole code points of T only, nothing put in place of a split one.
\* (SpecTrim)
C3_TrimKeepsPrefixOfText ==
  (trimOut # NoTrim /\ trimOut.truncated) =>
    /\ IsSuffix(TruncationMarker, trimOut.text)
    /\ IsPrefix(SubSeq(trimOut.text, 1, Len(trimOut.text) - Len(TruncationMarker)),
                trimText)

PerFileOps == {"stagedDiff", "unstagedDiff", "stat", "readFile"}

\* the paths a per-file command or file operation was issued for
TouchedPaths ==
  {issued[k].path : k \in {n \in 1..Len(issued) : issued[n].op \in PerFileOps}}

\* the paths that head a block of the diff
BlockPaths == {diffParts[k].path : k \in 1..Len(diffParts)}

\* the bodies of the "Untracked file content" sections in the block of path
UntrackedBodies(path) ==
  {diffParts[b].sections[x].body :
     <<b, x>> \in {<<c, y>> \in (1..Len(diffParts)) \X (1..3) :
                     /\ diffParts[c].path = path
                     /\ y <= Len(diffParts[c].sections)
                     /\ diffParts[c].sections[y].kind = "untracked"}}

SectionKinds ==
  {diffParts[b].sections[x].kind :
     <<b, x>> \in {<<c, y>> \in (1..Len(diffParts)) \X (1..3) :
                     y <= Len(diffParts[c].sections)}}

C5_FileBudgetCounts ==
  phase = "resolved" =>
    /\ snapshot.includedChangedFiles <= snapshot.totalChangedFiles
    /\ snapshot.wasFileLimited <=>
         snapshot.includedChangedFiles < snapshot.totalChangedFiles

\* C5 witness: a snapshot the file limit cut
C5_Witness ==
  /\ phase = "resolved"
  /\ snapshot.wasFileLimited
  /\ snapshot.includedChangedFiles < snapshot.totalChangedFiles

\* C6: with a positive maxChangedFiles the working set is the first
\* min(maxChangedFiles, totalChangedFiles) entries of the merged list: per-file
\* commands and diff blocks exist for those paths only, and whenever a staged
\* path is left out every path taken is a staged one.  (SpecCollect)
C6_WorkingSetIsPrefix ==
  LET all == allChangedFiles
      working == SubSeq(all, 1, Min(config.maxChangedFiles, Len(all)))
  IN config.maxChangedFiles > 0 =>
       /\ TouchedPaths \subseteq Range(working)
       /\ BlockPaths \subseteq TouchedPaths
       /\ phase = "resolved" =>
            /\ snapshot.includedChangedFiles = Len(working)
            /\ snapshot.totalChangedFiles = Len(all)
            /\ TouchedPaths = Range(working)
            /\ (Range(stagedFiles) \ TouchedPaths # {}) =>
                 TouchedPaths \subseteq Range(stagedFiles)

\* C6 witness: the limit keeps a staged path and leaves out a path that is
\* only untracked, and the diff has a block
C6_Witness ==
  /\ phase = "resolved"
  /\ snapshot.wasFileLimited
  /\ diffParts # <<>>
  /\ TouchedPaths \cap Range(stagedFiles) # {}
  /\ (Range(untrackedFiles) \ (Range(stagedFiles) \cup Range(unstagedFiles)))
       \ TouchedPaths # {}

\* C7: a git command that fails is the last thing the collection issues: the
\* promise rejects with an error naming that command and no snapshot exists;
\* a rejection comes from a failed git command only, never from a failed
\* fs.stat or fs.readFile.  (SpecCollect)
C7_GitFailureAborts ==
  /\ \A k \in 1..Len(outcomes) :
       (outcomes[k].kind = "error" /\ issued[k].op \in GitOps) =>
         /\ phase = "rejected"
         /\ k = Len(issued)
         /\ error = [args |-> issued[k]]
         /\ snapshot = NoSnapshot
         /\ awaiting = NoCommand
  /\ phase = "rejected" =>
       /\ Len(outcomes) = Len(issued)
       /\ outcomes[Len(outcomes)].kind = "error"
       /\ issued[Len(issued)].op \in GitOps
  /\ phase = "resolved" => error = NoError

\* C7 witness: a per-file diff fails after an earlier file read had failed
\* and been caught
C7_Witness ==
  /\ phase = "rejected"
  /\ error.args.op \in {"stagedDiff", "unstagedDiff"}
  /\ \E k \in 1..Len(outcomes) :
       outcomes[k].kind = "error" /\ issued[k].op \in FsOps

\* what C8 says readUntrackedFileContent yields for an outcome of fs.stat or
\* fs.readFile
PlaceholderFor(outcome) ==
  IF outcome.kind = "notFile" THEN SkippedNonRegular
  ELSE IF outcome.kind = "error" THEN UnavailableText(outcome.data)
  ELSE IF looksBinary(outcome.data) THEN SkippedBinary
  ELSE IF Trim(Utf8Decode(outcome.data)) = <<>> THEN EmptyTextFile
  ELSE Trim(Utf8Decode(outcome.data))

\* C8: once the stat or read of an untracked working-set path has ended, its
\* block has exactly one "Untracked file content" section, holding the
\* placeholder of the case (or the trimmed text), which is never blank, and
\* the collection has gone on: the next command is issued or the snapshot is
\* returned, unless a later git command failed.  (SpecCollect)
C8_UntrackedPlaceholders ==
  \A k \in 1..Len(outcomes) :
    (issued[k].op \in FsOps /\ outcomes[k].kind # "isFile") =>
      /\ UntrackedBodies(issued[k].path) = {PlaceholderFor(outcomes[k])}
      /\ Trim(PlaceholderFor(outcomes[k])) # <<>>
      /\ Len(issued) > k \/ phase = "resolved"

\* C8 witness: a read that failed with an empty message, a file of white
\* space only, and the snapshot returned with both blocks
C8_Witness ==
  /\ phase = "resolved"
  /\ \E k \in 1..Len(outcomes) :
       /\ issued[k].op = "readFile"
       /\ outcomes[k] = Outcome("error", <<>>)
  /\ \E k \in 1..Len(outcomes) :
       /\ issued[k].op = "readFile"
       /\ outcomes[k] = Outcome("ok", <<32, 10>>)
  /\ Len(diffParts) = 2

\* C9: with includeOnlyStaged only status, the staged name list and per-file
\* staged diffs are ever issued; the merged list is the staged list without
\* repeats and every section of the diff is a "Staged diff".  (SpecCollect)
C9_OnlyStaged ==
  config.includeOnlyStaged =>
    /\ \A k \in 1..Len(issued) :
         issued[k].op \in {"status", "stagedNames", "stagedDiff"}
    /\ unstagedFiles = <<>> /\ untrackedFiles = <<>>
    /\ NoRepeats(allChangedFiles)
    /\ Range(allChangedFiles) = Range(stagedFiles)
    /\ SectionKinds \subseteq {"staged"}
    /\ phase = "resolved" =>
         snapshot.totalChangedFiles = Cardinality(Range(stagedFiles))

\* C9 witness: a snapshot with a staged block, collected with includeOnlyStaged
C9_Witness ==
  /\ config.includeOnlyStaged
  /\ phase = "resolved"
  /\ diffParts # <<>>
  /\ Len(stagedFiles) = MaxPaths

\* C10: with truncateDiff disabled wasTruncated is false and the diff is the
\* merged text; with it enabled wasTruncated holds exactly when the merged
\* text is longer than maxDiffBytes bytes, and then the diff ends with the
\* marker.  (SpecCollect)
C10_TruncationFlag ==
  phase = "resolved" =>
    LET merged == MergedText(diffParts)
    IN IF config.truncateDiff
       THEN /\ snapshot.wasTruncated <=> byteLength(merged) > config.maxDiffBytes
            /\ snapshot.wasTruncated => IsSuffix(TruncationMarker, snapshot.diff)
       ELSE ~snapshot.wasTruncated /\ snapshot.diff = merged

\* C10 witness: truncation disabled and a merged text over maxDiffBytes
C10_Witness ==
  /\ phase = "resolved"
  /\ ~config.truncateDiff
  /\ byteLength(snapshot.diff) > config.maxDiffBytes


KindRank(kind) ==
  IF kind = "staged" THEN 1 ELSE IF kind = "unstaged" THEN 2 ELSE 3

\* C11: every block of diffParts holds at least one section and only
\* non-blank sections (a path whose sections were all blank has no block), an
\* untracked path that was processed always has one, no path heads two
\* blocks, the blocks follow the order of the working set, and the snapshot
\* counts every path of the working set, so blocks <= includedChangedFiles.
\* (SpecCollect)
C11_BlocksOnlyForNonBlankPaths ==
  /\ \A b \in 1..Len(diffParts) :
       /\ Len(diffParts[b].sections) >= 1
       /\ \A x \in 1..Len(diffParts[b].sections) :
            Trim(diffParts[b].sections[x].body) # <<>>
       /\ \A x, y \in 1..Len(diffParts[b].sections) :
            x < y => KindRank(diffParts[b].sections[x].kind)
                       < KindRank(diffParts[b].sections[y].kind)
       /\ diffParts[b].path \in Range(limitedFiles)
       /\ FirstIndex(limitedFiles, diffParts[b].path) < fileIdx
  /\ \A b, c \in 1..Len(diffParts) :
       b < c => FirstIndex(limitedFiles, diffParts[b].path)
                  < FirstIndex(limitedFiles, diffParts[c].path)
  /\ \A i \in 1..Len(limitedFiles) :
       (i < fileIdx /\ limitedFiles[i] \in Range(untrackedFiles))
         => limitedFiles[i] \in BlockPaths
  /\ phase = "resolved" =>
       /\ snapshot.includedChangedFiles = Len(limitedFiles)
       /\ Len(diffParts) <= snapshot.includedChangedFiles

\* C11 witness: a snapshot of two counted paths of which one, whose only
\* diff was blank, has no block
C11_Witness ==
  /\ phase = "resolved"
  /\ snapshot.includedChangedFiles = 2
  /\ Len(diffParts) = 1
  /\ \E k \in 1..Len(issued) :
       issued[k].op = "stagedDiff" /\ issued[k].path \notin BlockPaths

OpStep(op) ==
  IF op = "stagedDiff" THEN 1
  ELSE IF op = "unstagedDiff" THEN 2
  ELSE IF op = "stat" THEN 3
  ELSE 4

\* the place of a command or file operation in the order of lines 68-121
OpRank(cmd, limited) ==
  IF cmd.op = "status" THEN 1
  ELSE IF cmd.op = "stagedNames" THEN 2
  ELSE IF cmd.op = "unstagedNames" THEN 3
  ELSE IF cmd.op = "untrackedNames" THEN 4
  ELSE 4 * FirstIndex(limited, cmd.path) + OpStep(cmd.op)

\* what a run that resolves has to have issued
ExpectedIssued(limited) ==
  {Command("status", <<>>), Command("stagedNames", <<>>)}
  \cup (IF config.includeOnlyStaged THEN {}
        ELSE {Command("unstagedNames", <<>>), Command("untrackedNames", <<>>)})
  \cup {Command("stagedDiff", p) : p \in Range(limited) \cap Range(stagedFiles)}
  \cup {Command("unstagedDiff", p) : p \in Range(limited) \cap Range(unstagedFiles)}
  \cup {Command("stat", p) : p \in Range(limited) \cap Range(untrackedFiles)}
  \cup {Command("readFile", issued[k].path) :
          k \in {n \in 1..Len(outcomes) :
                   issued[n].op = "stat" /\ outcomes[n].kind = "isFile"}}

\* C12: at most one command or file operation is in flight and one is issued
\* only when all earlier ones have completed; they are issued in the order
\* status, staged names, unstaged names, untracked names, then path by path
\* in working-set order staged diff, unstaged diff, untracked read; a run
\* that resolves has issued all of them; the snapshot (join and truncation)
\* exists only when nothing is in flight any more.  (SpecCollect)
C12_OneAtATimeInOrder ==
  LET limited == limitedFiles
      expected == ExpectedIssued(limited)
  IN /\ Len(outcomes) <= Len(issued)
     /\ Len(issued) <= Len(outcomes) + 1
     /\ IF Len(issued) = Len(outcomes) + 1
        THEN awaiting = issued[Len(issued)]
        ELSE awaiting = NoCommand
     /\ \A k \in 1..Len(issued) :
          issued[k].op \in PerFileOps => issued[k].path \in Range(limited)
     /\ \A k \in 1..(Len(issued) - 1) :
          OpRank(issued[k], limited) < OpRank(issued[k + 1], limited)
     /\ Range(issued) \subseteq expected \cup {awaiting}
     /\ phase = "resolved" => Range(issued) = expected
     /\ snapshot # NoSnapshot =>
          /\ awaiting = NoCommand
          /\ Len(outcomes) = Len(issued)
          /\ fileIdx = Len(limited) + 1

\* C12 witness: a resolved run over two paths in which one path went through
\* all of staged diff, unstaged diff and untracked read
C12_Witness ==
  /\ phase = "resolved"
  /\ Len(limitedFiles) = 2
  /\ \E p \in Range(limitedFiles) :
       {Command("stagedDiff", p), Command("unstagedDiff", p),
        Command("stat", p), Command("readFile", p)} \subseteq Range(issued)


\* the bytes of the buffer that line 220 counts: below 32, not tab, LF or CR
ControlPositions(buffer, n) ==
  {i \in 1..n : buffer[i] < 32 /\ buffer[i] \notin {9, 10, 13}}

\* C13: looksBinary is false for the empty buffer, true for a buffer with a
\* 0x00 byte at any position (also past the first 1024 bytes), and otherwise
\* true exactly when more than 10% of the first min(length, 1024) bytes are
\* control bytes other than tab, LF and CR; exactly 10% is text, and bytes
\* past the first 1024 do not count.  (SpecBinary)
C13_LooksBinary ==
  (binaryCall # Off /\ binaryCall.returned) =>
    LET buffer == binaryCall.buffer
        sample == Min(Len(buffer), 1024)
        count == Cardinality(ControlPositions(buffer, sample))
    IN binaryCall.result =
         IF Len(buffer) = 0 THEN FALSE
         ELSE IF \E i \in 1..Len(buffer) : buffer[i] = 0 THEN TRUE
         ELSE 10 * count > sample

\* C13 witness: a buffer longer than 1024 bytes without 0x00 whose first 1024
\* bytes hold under 10% control bytes while the whole buffer holds more than
\* 10%, classified as text
C13_Witness ==
  /\ binaryCall # Off
  /\ binaryCall.returned
  /\ ~binaryCall.result
  /\ Len(binaryCall.buffer) > 1024
  /\ 10 * Cardinality(ControlPositions(binaryCall.buffer, Len(binaryCall.buffer)))
       > Len(binaryCall.buffer)


\* the texts of the slots that are on, in slot order
RECURSIVE TextsOfSlots(_)
TextsOfSlots(slots) ==
  IF slots = <<>> THEN <<>>
  ELSE (IF Head(slots).on THEN <<Head(slots).text>> ELSE <<>>)
         \o TextsOfSlots(Tail(slots))

\* the sections the user prompt is to consist of, slot by slot in the fixed
\* order, each with the condition under which it is present
PromptSlots(snap, cfg) ==
  <<[on |-> TRUE, text |-> TaskStatement],
    [on |-> TRUE, text |-> RulesHeader \o cfg.ruleTemplate],
    [on |-> Trim(cfg.additionalRules) # <<>>,
     text |-> AdditionalRulesHeader \o Trim(cfg.additionalRules)],
    [on |-> TRUE, text |-> LanguageRequirement(cfg.language)],
    [on |-> TRUE, text |-> OutputConstraints(cfg.language)],
    [on |-> Trim(snap.status) # <<>>, text |-> GitStatusHeader \o snap.status],
    [on |-> TRUE,
     text |-> GitDiffHeader \o
                (IF snap.diff = <<>> THEN NoDiffProvided ELSE snap.diff)],
    [on |-> snap.wasFileLimited,
     text |-> FileLimitNote(snap.includedChangedFiles, snap.totalChangedFiles)],
    [on |-> snap.wasTruncated, text |-> TruncationNote]>>

\* C14: the user prompt is, joined by blank lines and in this order: the
\* task statement, "Rules:" with the rule template, "Additional rules:" with
\* the trimmed additional rules iff they are non-blank, the language
\* requirement and the output constraints of the language, "Git status
\* (short):" with the status iff the status is non-blank, "Git diff:" with
\* the diff or "(no diff provided)" when the diff is empty, the file-limit
\* note, the truncation note; no header stands over an empty body; the
\* system prompt is config.systemPrompt.  (SpecPrompt)
C14_PromptSections ==
  (promptCall # Off /\ promptCall.returned) =>
    LET snap == promptCall.snapshot
        cfg == promptCall.config
        slots == PromptSlots(snap, cfg)
    IN /\ promptCall.out.userPrompt = Join(TextsOfSlots(slots), BlankLine)
       /\ promptCall.out.systemPrompt = cfg.systemPrompt
       /\ cfg.ruleTemplate # <<>>
       /\ slots[3].on => Len(slots[3].text) > Len(AdditionalRulesHeader)
       /\ slots[6].on => Len(slots[6].text) > Len(GitStatusHeader)
       /\ Len(slots[7].text) > Len(GitDiffHeader)

\* C14 witness: a prompt built from blank additional rules, a blank but not
\* empty status and an empty diff
C14_Witness ==
  /\ promptCall # Off
  /\ promptCall.returned
  /\ promptCall.config.additionalRules = <<32, 32>>
  /\ promptCall.snapshot.status = <<32, 10>>
  /\ promptCall.snapshot.diff = <<>>
  /\ IsSuffix(GitDiffHeader \o NoDiffProvided, promptCall.out.userPrompt)


\* the prompt fields of the configuration of a run that collects with
\* `config`: English, no additional rules
PromptConfigOfRun ==
  [systemPrompt |-> <<115>>, ruleTemplate |-> <<114>>,
   additionalRules |-> <<>>, language |-> "en"]

\* the user prompt ends with the truncation note
HasTruncationNote(prompt) == IsSuffix(BlankLine \o TruncationNote, prompt)

\* the user prompt holds the file-limit note for included/total, as its last
\* section or as the one before the truncation note
HasFileLimitNote(prompt, included, total) ==
  LET note == BlankLine \o FileLimitNote(included, total)
  IN \/ IsSuffix(note, prompt)
     \/ IsSuffix(note \o BlankLine \o TruncationNote, prompt)

\* C15: the prompt built from the snapshot of a run holds the file-limit
\* note with includedChangedFiles/totalChangedFiles iff wasFileLimited, and
\* the truncation note iff wasTruncated; so a prompt whose diff is not the
\* whole merged text holds the truncation note, and one whose working set is
\* shorter than the list of changed files holds the file-limit note with
\* the two lengths.  (SpecCollect)
C15_NotesMatchSnapshot ==
  phase = "resolved" =>
    LET prompt == buildPrompt(snapshot, PromptConfigOfRun).userPrompt
        limited == limitedFiles
        all == allChangedFiles
    IN /\ HasTruncationNote(prompt) <=> snapshot.wasTruncated
       /\ HasFileLimitNote(prompt, snapshot.includedChangedFiles,
                           snapshot.totalChangedFiles) <=> snapshot.wasFileLimited
       /\ snapshot.diff # MergedText(diffParts) => HasTruncationNote(prompt)
       /\ Len(limited) < Len(all) =>
            HasFileLimitNote(prompt, Len(limited), Len(all))

\* C15 witness: a run whose working set was cut and whose diff was truncated
C15_Witness ==
  /\ phase = "resolved"
  /\ snapshot.wasTruncated
  /\ snapshot.wasFileLimited
  /\ snapshot.diff # MergedText(diffParts)
  /\ HasTruncationNote(buildPrompt(snapshot, PromptConfigOfRun).userPrompt)


\* C16: when the key has a workspace-folder or workspace value and also a
\* global value, the setting readConfig returns is the workspace-level one,
\* not the global one.  (SpecConfig)
C16_WorkspaceOverridesGlobal ==
  (configCall # Off /\ configCall.returned) =>
    LET inspected == configCall.inspected
    IN (/\ inspected.found
        /\ inspected.globalValue # Undefined
        /\ \/ inspected.workspaceFolderValue # Undefined
           \/ inspected.workspaceValue # Undefined)
         => configCall.provider =
              IF inspected.workspaceFolderValue # Undefined
              THEN inspected.workspaceFolderValue
              ELSE inspected.workspaceValue


AllSteps ==
  <<"language", "provider", "model", "apiKey", "baseUrl", "requestPath",
    "extraHeaders", "clipboard">>

\* the steps of a run: the request path is a step when the provider is openai
StepsOf(w) ==
  IF Len(w.answers) >= 2 /\ w.answers[2].answer.given
     /\ w.answers[2].answer.value # "openai"
  THEN SelectSeq(AllSteps, LAMBDA step : step # "requestPath")
  ELSE AllSteps

KeyOf(step) ==
  IF step = "requestPath" THEN "customRequestPath"
  ELSE IF step = "clipboard" THEN "copyToClipboard"
  ELSE step

WrittenKeys(w) == {w.writes[i].key : i \in 1..Len(w.writes)}

\* the last prompt of the run was dismissed
Cancelled(w) ==
  Len(w.answers) > 0 /\ ~w.answers[Len(w.answers)].answer.given

\* true iff every step returned a value; a cancelled step k ends the run
\* with false, no later prompt and no setting of step k or a later step
ReturnsAndStops(w) ==
  LET steps == StepsOf(w)
      k == Len(w.answers)
  IN /\ \A i \in 1..k : w.answers[i].step = steps[i]
     /\ w.result = "true" <=>
          (k = Len(steps) /\ \A i \in 1..k : w.answers[i].answer.given)
     /\ Cancelled(w) =>
          /\ w.result = "false"
          /\ w.prompts = SubSeq(steps, 1, k)
          /\ \A l \in 1..Len(AllSteps) :
               FirstIndex(AllSteps, steps[k]) <= l
                 => KeyOf(AllSteps[l]) \notin WrittenKeys(w)

RECURSIVE KeysAfter(_, _)
KeysAfter(answers, provider) ==
  IF answers = <<>> THEN <<>>
  ELSE LET last == answers[Len(answers)]
           before == KeysAfter(SubSeq(answers, 1, Len(answers) - 1), provider)
       IN IF ~last.answer.given THEN before
          ELSE IF last.step = "apiKey"
          THEN (IF Trim(last.answer.value) # <<>> THEN Append(before, "apiKey")
                ELSE before)
          ELSE IF last.step = "baseUrl" /\ provider # "openai"
          THEN before \o <<"baseUrl", "customRequestPath">>
          ELSE Append(before, KeyOf(last.step))

ErrorCount(w) ==
  Cardinality({i \in 1..Len(w.messages) : w.messages[i].kind = "error"})

\* the collection resolved with a non-blank status and the LLM client
\* returned a text
Generated(w) ==
  /\ w.repository # 0
  /\ Trim(w.status) # <<>>
  /\ \/ w.pc = "clipboard"
     \/ w.pc = "done" /\ w.failedAt \in {"nowhere", "clipboard"}

\* the run ended because the Git API or the repository was missing, or
\* because getGitApi, the collection or the generation failed
FailedBeforeText(w) ==
  /\ w.pc = "done"
  /\ w.repository = 0 \/ w.failedAt \in {"getGitApi", "collect", "generate"}

\* C18: an input box differs from what it held before the run only if the
\* collection resolved with a non-blank status and the LLM client returned
\* a text, and then it is the box of the picked repository and holds that
\* text; the same for the clipboard; the prompt is built and the LLM client
\* called at most once and only for a non-blank status; a run that ends for
\* a missing Git API or repository or a failed collection or generation
\* leaves every input box as it was and shows exactly one error message.
\* (SpecCommand)
C18_InputBoxOnlyOnSuccess ==
  command # Off =>
    /\ \A i \in 1..Len(command.boxes) :
         command.boxes[i] # command.before[i] =>
           /\ Generated(command)
           /\ i = command.repository
    /\ Generated(command) =>
         /\ command.boxes[command.repository] = command.commitMessage
         /\ Len(command.requests) = 1
    /\ command.clipboard # <<99>> =>
         /\ Generated(command)
         /\ command.copyToClipboard
         /\ command.clipboard = command.commitMessage
    /\ Len(command.requests) <= 1
    /\ command.requests # <<>> => Trim(command.status) # <<>>
    /\ FailedBeforeText(command) =>
         /\ command.boxes = command.before
         /\ command.clipboard = <<99>>
         /\ ErrorCount(command) = 1
    /\ ErrorCount(command) <= 1

\* C18 witness: of two repositories the second, picked by the active
\* editor, got the generated text, and so did the clipboard
C18_Witness ==
  /\ command # Off
  /\ command.pc = "done"
  /\ command.repository = 2
  /\ command.boxes # command.before
  /\ command.boxes[2] = <<102, 105, 120>>
  /\ command.clipboard = <<102, 105, 120>>
  /\ ErrorCount(command) = 0


\* C19: pickModel's promise is resolved at most once and the quick pick
\* disposed at most once, whatever the order of onDidAccept and onDidHide;
\* and once the user has submitted a name in the input box that follows the
\* custom-input item, the promise is resolved with that name, trimmed, not
\* with undefined.  (SpecPicker)
C19_ResolvedOnceWithCustomName ==
  picker # Off =>
    /\ picker.resolved <= 1
    /\ picker.disposed <= 1
    /\ picker.submitted.given =>
         /\ picker.resolved = 1
         /\ picker.result.given
         /\ picker.result.value = Trim(picker.submitted.value)

====
